---- MODULE Spec2Model ----
(***************************************************************************)
(* Task orchestration core of services/agent_service.py (AgentService):    *)
(* the two in-memory collections, the two JSON files behind them, task     *)
(* creation, step execution, archival and construction (load) of a new     *)
(* orchestrator over the files a previous one left.                        *)
(*                                                                         *)
(* A timestamp is a record [kind, t]: kind "datetime" is a Python datetime *)
(* object, kind "str" is its isoformat() text, kind "badstr" is text that  *)
(* datetime.fromisoformat rejects, kind "absent" is a missing key.  All    *)
(* datetime.now() calls of one operation read the same clock value `now`.  *)
(* A task carries `uid`, the identity of the dict object built by          *)
(* create_task (kept in its file copies so that a reloaded record can be   *)
(* recognised as the same task).                                           *)
(***************************************************************************)
EXTENDS Integers, Sequences, FiniteSets, TLC

\* ---- bounds of the model ----
MaxTasks == 3
MaxClock == 5

\* step types the planner may return: the two the dispatcher knows and one it does not
StepTypes == {"analysis", "action", "unsupported"}

\* the step types of the arrays the planner gets back in the model: none, one known,
\* one unknown, two known, and known / unknown / known
Plans ==
    {<<>>, <<"analysis">>, <<"unsupported">>, <<"analysis", "action">>,
     <<"action", "unsupported", "analysis">>}

VARIABLES
    active_tasks,   \* self.active_tasks: list of task dicts
    task_history,   \* self.task_history: list of task dicts
    active_file,    \* active_tasks.json
    history_file,   \* task_history.json
    backup_file,    \* active_tasks.json.bak
    now,            \* the wall clock read by datetime.now()
    calls,          \* number of openai_service.get_completion calls made
    nextUid,        \* number of task dicts create_task has built so far
    created,        \* uids of the tasks create_task added on this orchestrator
    archived,       \* uid and step count of the tasks archive_task has moved, on any orchestrator
    last,           \* the last operation called and how it ended
    in_flight,      \* create_task coroutines suspended in `await self._plan_task_steps`
    raced,          \* pairs of uids of create_task calls that computed their id from the same count
    peer,           \* active_tasks and task_history of a second AgentService on the same files
    peer_written    \* uids of the tasks the second AgentService has written to the active file

vars == <<active_tasks, task_history, active_file, history_file, backup_file,
          now, calls, nextUid, created, archived, last,
          in_flight, raced, peer, peer_written>>

\* ---- small helpers ----
Min(S) == CHOOSE x \in S : \A y \in S : x <= y

RemoveAt(s, i) == [j \in 1..(Len(s) - 1) |-> IF j < i THEN s[j] ELSE s[j + 1]]

Occurrences(tasks, u) == Cardinality({i \in DOMAIN tasks : tasks[i].uid = u})

\* ---- timestamps ----
Datetime(t) == [kind |-> "datetime", t |-> t]

IsoString(t) == [kind |-> "str", t |-> t]

NoTime == [kind |-> "absent", t |-> 0]

BadString == [kind |-> "badstr", t |-> 0]

\* x.isoformat() exists on datetime objects only; on a str it is an AttributeError
HasIsoformat(ts) == ts.kind = "datetime"

isoformat(ts) == IsoString(ts.t)

\* datetime.fromisoformat(x) parses isoformat text; other text is a ValueError
Parses(ts) == ts.kind = "str"

fromisoformat(ts) == Datetime(ts.t)

\* ---- step results ----
NoResult == [status |-> "none", value |-> "none"]

\* get_completion is `async def` and is called without await: the value is a coroutine object
SuccessResult == [status |-> "success", value |-> "coroutine"]

UnknownTypeResult == [status |-> "error", value |-> "Unknown step type"]

\* ---- files ----
AbsentFile == [state |-> "absent", data |-> <<>>]

MalformedFile == [state |-> "malformed", data |-> <<>>]

JsonFile(data) == [state |-> "json", data |-> data]

\* what json.dump accepts: text timestamps and no coroutine object
JsonTime(ts) == ts.kind \in {"str", "badstr", "absent"}

JsonStep(s) == JsonTime(s.created_at) /\ JsonTime(s.updated_at) /\ s.result.value # "coroutine"

JsonTask(t) ==
    /\ JsonTime(t.created_at) /\ JsonTime(t.updated_at) /\ JsonTime(t.completed_at)
    /\ \A i \in DOMAIN t.steps : JsonStep(t.steps[i])

\* ---- _save_active_tasks ----
StepRaises(s) == ~HasIsoformat(s.created_at) \/ ~HasIsoformat(s.updated_at)

StepConverted(s) == [s EXCEPT !.created_at = isoformat(@), !.updated_at = isoformat(@)]

StepPartial(s) == IF HasIsoformat(s.created_at) THEN [s EXCEPT !.created_at = isoformat(@)] ELSE s

\* the steps of one task after the inner loop, which rewrites the shared step dicts in
\* place and stops at the step in `bad` that raises first
StepsLoop(steps, bad) ==
    [i \in DOMAIN steps |->
        IF bad = {} \/ i < Min(bad) THEN StepConverted(steps[i])
        ELSE IF i = Min(bad) THEN StepPartial(steps[i])
        ELSE steps[i]]

StepsAfterLoop(steps) == StepsLoop(steps, {i \in DOMAIN steps : StepRaises(steps[i])})

TaskLevelRaises(t) == ~HasIsoformat(t.created_at) \/ ~HasIsoformat(t.updated_at)

TaskRaises(t) == TaskLevelRaises(t) \/ \E i \in DOMAIN t.steps : StepRaises(t.steps[i])

TaskAfterLoop(t) == IF TaskLevelRaises(t) THEN t ELSE [t EXCEPT !.steps = StepsAfterLoop(@)]

TaskCopyActive(t) ==
    [t EXCEPT !.created_at = isoformat(@), !.updated_at = isoformat(@),
              !.steps = StepsAfterLoop(@)]

\* json.dump of tasks_data: mem is the in-memory list after the conversion loop
SaveActiveDump(mem, data) ==
    IF \A i \in DOMAIN data : JsonTask(data[i])
    THEN [raised |-> FALSE, tasks |-> mem, file |-> JsonFile(data)]
    ELSE [raised |-> TRUE, tasks |-> mem, file |-> MalformedFile]

\* the conversion loop: bad are the tasks on which isoformat raises
SaveActiveLoop(tasks, file, bad) ==
    IF bad # {}
    THEN [raised |-> TRUE,
          tasks |-> [i \in DOMAIN tasks |->
                        IF i <= Min(bad) THEN TaskAfterLoop(tasks[i]) ELSE tasks[i]],
          file |-> file]
    ELSE SaveActiveDump([i \in DOMAIN tasks |-> TaskAfterLoop(tasks[i])],
                        [i \in DOMAIN tasks |-> TaskCopyActive(tasks[i])])

\* a save that first reads the file and keeps the records of tasks it does not hold
save_active_tasks_merging(tasks, file) ==
    LET saved == SaveActiveLoop(tasks, file, {i \in DOMAIN tasks : TaskRaises(tasks[i])}) IN
    IF saved.raised \/ file.state # "json" THEN saved
    ELSE [saved EXCEPT !.file =
             JsonFile(SelectSeq(file.data,
                                LAMBDA d : \A i \in DOMAIN saved.tasks : saved.tasks[i].uid # d.uid)
                      \o saved.file.data)]

save_active_tasks(tasks, file) ==
    SaveActiveLoop(tasks, file, {i \in DOMAIN tasks : TaskRaises(tasks[i])})

\* ---- _save_task_history ----
HistoryTaskRaises(t) ==
    \/ ~HasIsoformat(t.created_at)
    \/ t.completed_at.kind # "absent" /\ ~HasIsoformat(t.completed_at)
    \/ ~HasIsoformat(t.updated_at)

TaskCopyHistory(t) ==
    [t EXCEPT !.created_at = isoformat(@), !.updated_at = isoformat(@),
              !.completed_at = IF @.kind = "absent" THEN @ ELSE isoformat(@)]

save_task_history(tasks, file) ==
    LET data == [i \in DOMAIN tasks |-> TaskCopyHistory(tasks[i])] IN
    IF \E i \in DOMAIN tasks : HistoryTaskRaises(tasks[i]) THEN file
    ELSE IF \A i \in DOMAIN tasks : JsonTask(data[i]) THEN JsonFile(data)
    ELSE MalformedFile

\* the exception _save_task_history catches and logs (lines 105-106): isoformat on a
\* value that has none, or json.dump on a value it cannot serialise
HistorySaveFails(tasks) ==
    \/ \E i \in DOMAIN tasks : HistoryTaskRaises(tasks[i])
    \/ \E i \in DOMAIN tasks : ~JsonTask(TaskCopyHistory(tasks[i]))

\* ---- _load_task_history ----
ParsesOrAbsent(ts) == ts.kind = "absent" \/ Parses(ts)

Revive(ts) == IF ts.kind = "absent" THEN ts ELSE fromisoformat(ts)

HistoryTaskLoaded(t) ==
    [t EXCEPT !.created_at = Revive(@), !.completed_at = Revive(@), !.updated_at = Revive(@)]

load_task_history(file) ==
    IF file.state = "absent" THEN [tasks |-> <<>>, file |-> JsonFile(<<>>)]
    ELSE IF file.state = "malformed" THEN [tasks |-> <<>>, file |-> file]
    ELSE IF \E i \in DOMAIN file.data :
                \/ ~ParsesOrAbsent(file.data[i].created_at)
                \/ ~ParsesOrAbsent(file.data[i].completed_at)
                \/ ~ParsesOrAbsent(file.data[i].updated_at)
         THEN [tasks |-> <<>>, file |-> file]
    ELSE [tasks |-> [i \in DOMAIN file.data |-> HistoryTaskLoaded(file.data[i])], file |-> file]

\* ---- _load_active_tasks ----
ActiveTaskLoaded(t) == [t EXCEPT !.created_at = Revive(@), !.updated_at = Revive(@)]

load_active_tasks(file, bak) ==
    IF file.state = "absent"
    THEN [tasks |-> <<>>, file |-> JsonFile(<<>>), bak |-> bak, err |-> "none"]
    ELSE IF file.state = "malformed"
    THEN [tasks |-> <<>>, file |-> JsonFile(<<>>), bak |-> file, err |-> "JSONDecodeError"]
    ELSE IF \E i \in DOMAIN file.data :
                \/ ~ParsesOrAbsent(file.data[i].created_at)
                \/ ~ParsesOrAbsent(file.data[i].updated_at)
         THEN [tasks |-> <<>>, file |-> file, bak |-> bak, err |-> "ValueError"]
    ELSE [tasks |-> [i \in DOMAIN file.data |-> ActiveTaskLoaded(file.data[i])],
          file |-> file, bak |-> bak, err |-> "none"]

\* ---- the text get_completion returns to the planner ----
\* kind "array": a JSON array of step objects, each with the type, id and status the model
\*   wrote (id 0 / status "absent": the key is missing); kind "text": prose that is not
\*   JSON; kind "error": the "Error: ..." text get_completion returns when the API call
\*   fails; kind "object": a JSON object wrapping the steps; kind "none": no content (None).
\* fence "json": the text is wrapped in ```json ... ```; fence "plain": in ``` ... ```.
\* (An empty JSON object or string, which the loop would hand back as it is, is not
\* among the responses of the model.)
Fences == {"none", "json", "plain"}

StepObject(type, id, status) == [type |-> type, id |-> id, status |-> status]

\* the model numbered the steps as the prompt asks and wrote no status
Instructed(types) == [i \in DOMAIN types |-> StepObject(types[i], i, "absent")]

\* the model numbered the steps from 2 and marked them completed
Deviating(types) == [i \in DOMAIN types |-> StepObject(types[i], i + 1, "completed")]

ArrayResponse(steps, fence) == [kind |-> "array", fence |-> fence, steps |-> steps]

OtherResponse(kind) == [kind |-> kind, fence |-> "none", steps |-> <<>>]

\* every array bare, one array in each kind of fence, and the four other kinds
Responses ==
    {ArrayResponse(steps, "none") :
        steps \in {Instructed(types) : types \in Plans} \cup {Deviating(types) : types \in Plans}}
    \cup {ArrayResponse(Deviating(<<"analysis", "action">>), fence) : fence \in Fences}
    \cup {OtherResponse(kind) : kind \in {"text", "error", "object", "none"}}

\* ---- _plan_task_steps ----
\* lines 202-207: ```json is cut from the start and ``` from the end; a plain ``` at the
\* start is left in the text
Cleaned(response) == [response EXCEPT !.fence = IF @ = "json" THEN "none" ELSE @]

\* lines 210-214: json.loads raises JSONDecodeError
JSONDecodeError(response) == response.kind \in {"text", "error"} \/ response.fence # "none"

\* a planner that keeps the id and the status the step object came with
StepPlannedKeepsSupplied(step, i, t) ==
    [id |-> IF step.id # 0 THEN step.id ELSE i, type |-> step.type,
     status |-> IF step.status # "absent" THEN step.status ELSE "pending",
     created_at |-> Datetime(t), updated_at |-> Datetime(t), result |-> NoResult]

\* lines 217-221: the lifecycle fields written over what the step object holds
StepPlanned(step, i, t) ==
    [id |-> i, type |-> step.type, status |-> "pending",
     created_at |-> Datetime(t), updated_at |-> Datetime(t), result |-> NoResult]

PlanParsed(response, t) ==
    IF JSONDecodeError(response) THEN <<>>
    ELSE IF response.kind = "object" THEN <<>>   \* TypeError on the first key, lines 225-227
    ELSE [i \in DOMAIN response.steps |-> StepPlanned(response.steps[i], i, t)]

plan_task_steps(response, t) ==
    IF response.kind = "none" THEN <<>>           \* AttributeError on strip, lines 225-227
    ELSE PlanParsed(Cleaned(response), t)

\* ---- get_task: active collection first, then history ----
FirstOf(hit) == IF hit = {} THEN 0 ELSE Min(hit)

FirstIndex(tasks, task_id) == FirstOf({i \in DOMAIN tasks : tasks[i].task_id = task_id})

Located(ia, ih) ==
    IF ia # 0 THEN [coll |-> "active", i |-> ia]
    ELSE IF ih # 0 THEN [coll |-> "history", i |-> ih]
    ELSE [coll |-> "none", i |-> 0]

get_task(active, history, task_id) ==
    Located(FirstIndex(active, task_id), FirstIndex(history, task_id))

TaskAt(active, history, loc) == IF loc.coll = "active" THEN active[loc.i] ELSE history[loc.i]

\* ---- create_task ----
NewTask(uid, task_id, response, t) ==
    [uid |-> uid, task_id |-> task_id, status |-> "pending",
     steps |-> plan_task_steps(response, t),
     created_at |-> Datetime(t), updated_at |-> Datetime(t), completed_at |-> NoTime]

NextTaskId(active, history) == Len(active) + Len(history) + 1

\* after self._save_active_tasks(): the task stays appended whether or not the save raised
CreateSaved(task, saved) ==
    [active_tasks |-> saved.tasks, active_file |-> saved.file,
     raised |-> saved.raised, task_id |-> task.task_id]

CreateAppend(active, afile, task) == CreateSaved(task, save_active_tasks(Append(active, task), afile))

create_task(active, history, afile, uid, response, t) ==
    CreateAppend(active, afile, NewTask(uid, NextTaskId(active, history), response, t))

\* ---- archive_task ----
Stamped(task, t) == [task EXCEPT !.completed_at = Datetime(t), !.updated_at = Datetime(t)]

\* the two saves: the history save swallows its failure, the active save raises
ArchiveSaved(task, hist, saved, hfile) ==
    [active_tasks |-> saved.tasks, task_history |-> hist,
     active_file |-> saved.file, history_file |-> save_task_history(hist, hfile),
     raised |-> saved.raised, moved |-> task.uid, nsteps |-> Len(task.steps)]

\* an archive that takes the task out of active_tasks without appending it to history
ArchiveMovedDrops(task, rest, history, afile, hfile) ==
    ArchiveSaved(task, history, save_active_tasks(rest, afile), hfile)

ArchiveMoved(task, rest, history, afile, hfile) ==
    ArchiveSaved(task, Append(history, task), save_active_tasks(rest, afile), hfile)

NotArchived(active, history, afile, hfile) ==
    [active_tasks |-> active, task_history |-> history,
     active_file |-> afile, history_file |-> hfile,
     raised |-> FALSE, moved |-> 0, nsteps |-> 0]

\* the archive without `self.active_tasks.remove(task)`
ArchiveAtKeeps(active, history, afile, hfile, t, i) ==
    IF i = 0 THEN NotArchived(active, history, afile, hfile)
    ELSE ArchiveMoved(Stamped(active[i], t), active, history, afile, hfile)

\* i is the position of the first active task with the id, 0 when there is none
ArchiveAt(active, history, afile, hfile, t, i) ==
    IF i = 0 THEN NotArchived(active, history, afile, hfile)
    ELSE ArchiveMoved(Stamped(active[i], t), RemoveAt(active, i), history, afile, hfile)

archive_task(active, history, afile, hfile, task_id, t) ==
    ArchiveAt(active, history, afile, hfile, t, FirstIndex(active, task_id))

\* ---- update_task_status / update_step_status ----
\* `task_id in self.active_tasks` compares the str with every dict of the list
StrEqualsDict(key, task) == FALSE

KeyInList(key, tasks) == \E i \in DOMAIN tasks : StrEqualsDict(key, tasks[i])

update_task_status(active, task_id, status, t) ==
    IF KeyInList(task_id, active)
    THEN [i \in DOMAIN active |->
             IF i = FirstIndex(active, task_id)
             THEN [active[i] EXCEPT !.status = status, !.updated_at = Datetime(t)]
             ELSE active[i]]
    ELSE active

StepStatusSet(steps, step_id, status, t) ==
    [j \in DOMAIN steps |->
        IF steps[j].id = step_id
        THEN [steps[j] EXCEPT !.status = status, !.updated_at = Datetime(t)]
        ELSE steps[j]]

update_step_status(active, task_id, step_id, status, t) ==
    IF KeyInList(task_id, active)
    THEN [i \in DOMAIN active |->
             IF i = FirstIndex(active, task_id)
             THEN [active[i] EXCEPT !.steps = StepStatusSet(@, step_id, status, t)]
             ELSE active[i]]
    ELSE active

\* ---- execute_step ----
execute_analysis_step(step) == [result |-> SuccessResult, calls |-> 1]

execute_action_step(step) == [result |-> SuccessResult, calls |-> 1]

KnownType(step) == step.type \in {"analysis", "action"}

\* a dispatcher whose final branch runs the analysis prompt instead of rejecting the type
DispatchDefaultsToAnalysis(step) ==
    IF step.type = "action" THEN execute_action_step(step) ELSE execute_analysis_step(step)

Dispatch(step) ==
    IF step.type = "analysis" THEN execute_analysis_step(step)
    ELSE IF step.type = "action" THEN execute_action_step(step)
    ELSE [result |-> UnknownTypeResult, calls |-> 0]

\* lines 350-355: the result is stored in the step and its status copied into step.status
StepDone(step, t, d) ==
    [step |-> [step EXCEPT !.result = d.result, !.status = d.result.status,
                           !.updated_at = Datetime(t)],
     result |-> d.result, calls |-> d.calls]

execute_step(step, t) == StepDone(step, t, Dispatch(step))

\* ---- execute_task ----
RECURSIVE StepUpdates(_, _, _, _, _, _)
\* the update_step_status calls of the loop, for the first n steps (k is the failing one, or 0)
StepUpdates(active, task_id, steps, n, k, t) ==
    IF n = 0 THEN active
    ELSE update_step_status(StepUpdates(active, task_id, steps, n - 1, k, t), task_id,
                            steps[n].id, IF n = k THEN "failed" ELSE "completed", t)

RECURSIVE CompletionCalls(_, _, _)
CompletionCalls(steps, n, t) ==
    IF n = 0 THEN 0 ELSE CompletionCalls(steps, n - 1, t) + execute_step(steps[n], t).calls

\* the loop over the steps: k is the first step whose result is not a success (0: none),
\* ran the number of steps dispatched
StepsRan(steps, t, k, ran) ==
    [steps |-> [i \in DOMAIN steps |->
                   IF i <= ran THEN execute_step(steps[i], t).step ELSE steps[i]],
     failed_at |-> k, ran |-> ran,
     calls |-> CompletionCalls(steps, ran, t),
     err |-> IF k = 0 THEN "none" ELSE execute_step(steps[k], t).result.value]

StepsUntil(steps, t, k) == StepsRan(steps, t, k, IF k = 0 THEN Len(steps) ELSE k)

RunSteps(steps, t) ==
    StepsUntil(steps, t,
               FirstOf({i \in DOMAIN steps : execute_step(steps[i], t).result.status # "success"}))

WithSteps(tasks, loc, coll, steps) ==
    IF loc.coll = coll THEN [tasks EXCEPT ![loc.i].steps = steps] ELSE tasks

\* a lookup miss reported as a completed run
NotFoundSucceeds(active, history, afile, hfile) ==
    [active_tasks |-> active, task_history |-> history,
     active_file |-> afile, history_file |-> hfile,
     out |-> "success", err |-> "none",
     ran |-> 0, failed_at |-> 0, calls |-> 0, moved |-> 0, nsteps |-> 0, uid |-> 0]

\* line 419: the task is in neither collection
NotFound(active, history, afile, hfile) ==
    [active_tasks |-> active, task_history |-> history,
     active_file |-> afile, history_file |-> hfile,
     out |-> "error", err |-> "Task not found",
     ran |-> 0, failed_at |-> 0, calls |-> 0, moved |-> 0, nsteps |-> 0, uid |-> 0]

\* lines 434-436: a step failed
Halted(active, history, afile, hfile, run, uid) ==
    [active_tasks |-> active, task_history |-> history,
     active_file |-> afile, history_file |-> hfile,
     out |-> "error", err |-> run.err,
     ran |-> run.ran, failed_at |-> run.failed_at, calls |-> run.calls,
     moved |-> 0, nsteps |-> 0, uid |-> uid]

\* lines 442-459: archive_task returned or raised
Archived(arch, task_id, t, run, uid) ==
    [active_tasks |-> IF arch.raised
                      THEN update_task_status(arch.active_tasks, task_id, "failed", t)
                      ELSE arch.active_tasks,
     task_history |-> arch.task_history,
     active_file |-> arch.active_file, history_file |-> arch.history_file,
     out |-> IF arch.raised THEN "error" ELSE "success",
     err |-> IF arch.raised THEN "save failed" ELSE "none",
     ran |-> run.ran, failed_at |-> 0, calls |-> run.calls,
     moved |-> arch.moved, nsteps |-> arch.nsteps, uid |-> uid]

ExecuteEnd(active, history, afile, hfile, task_id, t, run, uid) ==
    IF run.failed_at # 0
    THEN Halted(update_task_status(active, task_id, "failed", t), history, afile, hfile, run, uid)
    ELSE Archived(archive_task(update_task_status(active, task_id, "completed", t),
                               history, afile, hfile, task_id, t),
                  task_id, t, run, uid)

ExecuteRun(active, history, afile, hfile, task_id, t, loc, run, uid) ==
    ExecuteEnd(StepUpdates(WithSteps(active, loc, "active", run.steps), task_id,
                           run.steps, run.ran, run.failed_at, t),
               WithSteps(history, loc, "history", run.steps),
               afile, hfile, task_id, t, run, uid)

ExecuteLocated(active, history, afile, hfile, task_id, t, loc) ==
    IF loc.coll = "none" THEN NotFound(active, history, afile, hfile)
    ELSE ExecuteRun(update_task_status(active, task_id, "running", t), history,
                    afile, hfile, task_id, t, loc,
                    RunSteps(TaskAt(active, history, loc).steps, t),
                    TaskAt(active, history, loc).uid)

execute_task(active, history, afile, hfile, task_id, t) ==
    ExecuteLocated(active, history, afile, hfile, task_id, t, get_task(active, history, task_id))

\* ---- the state after construction on a fresh deployment (no files yet) ----
\* the record of a call: the operation, the id passed, the collection get_task found
\* the task in, how the call ended, the steps it ran, the failing step, the task's uid
Outcome(op, id, coll, out, err, ran, failed_at, uid) ==
    [op |-> op, id |-> id, coll |-> coll, out |-> out, err |-> err,
     ran |-> ran, failed_at |-> failed_at, uid |-> uid]

\* __init__ (lines 29-47): the state both loads leave
Loaded(h, a) ==
    [task_history |-> h.tasks, history_file |-> h.file,
     active_tasks |-> a.tasks, active_file |-> a.file, backup_file |-> a.bak,
     last |-> Outcome("construct", 0, "none", "ok", a.err, 0, 0, 0)]

\* the collections of a second AgentService constructed where no file exists yet
NoPeerTasks == [active_tasks |-> <<>>, task_history |-> <<>>]

Init ==
    /\ \E r \in {Loaded(load_task_history(AbsentFile),
                        load_active_tasks(AbsentFile, AbsentFile))} :
           /\ task_history = r.task_history
           /\ history_file = r.history_file
           /\ active_tasks = r.active_tasks
           /\ active_file = r.active_file
           /\ backup_file = r.backup_file
           /\ last = r.last
    /\ now = 1
    /\ calls = 0
    /\ nextUid = 0
    /\ created = {}
    /\ archived = {}
    /\ in_flight = {}
    /\ raced = {}
    /\ peer = NoPeerTasks
    /\ peer_written = {}

\* ---- operations ----
CreateTask(response) ==
    /\ nextUid < MaxTasks
    /\ now < MaxClock
    /\ \E r \in {create_task(active_tasks, task_history, active_file, nextUid + 1, response, now)} :
           /\ active_tasks' = r.active_tasks
           /\ active_file' = r.active_file
           /\ last' = Outcome("create", r.task_id, "none", IF r.raised THEN "raised" ELSE "ok",
                              IF r.raised THEN "save failed" ELSE "none", 0, 0, nextUid + 1)
    /\ nextUid' = nextUid + 1
    /\ created' = created \cup {nextUid + 1}
    /\ now' = now + 1
    /\ calls' = calls + 1     \* the awaited get_completion of _plan_task_steps (line 199)
    /\ UNCHANGED <<task_history, history_file, backup_file, archived,
                   in_flight, raced, peer, peer_written>>

ArchiveTask(task_id) ==
    /\ \E r \in {archive_task(active_tasks, task_history, active_file, history_file, task_id, now)} :
           /\ r.moved # 0 => now < MaxClock
           /\ active_tasks' = r.active_tasks
           /\ task_history' = r.task_history
           /\ active_file' = r.active_file
           /\ history_file' = r.history_file
           /\ archived' = IF r.moved = 0 THEN archived
                          ELSE archived \cup {[uid |-> r.moved, nsteps |-> r.nsteps]}
           /\ now' = IF r.moved = 0 THEN now ELSE now + 1
           /\ last' = Outcome("archive", task_id, IF r.moved = 0 THEN "none" ELSE "active",
                              IF r.raised THEN "raised" ELSE "ok",
                              IF r.raised THEN "save failed" ELSE "none", 0, 0, r.moved)
    /\ UNCHANGED <<backup_file, calls, nextUid, created,
                   in_flight, raced, peer, peer_written>>

ExecuteTask(task_id) ==
    /\ \E r \in {execute_task(active_tasks, task_history, active_file, history_file, task_id, now)} :
           /\ (r.ran # 0 \/ r.moved # 0) => now < MaxClock
           /\ active_tasks' = r.active_tasks
           /\ task_history' = r.task_history
           /\ active_file' = r.active_file
           /\ history_file' = r.history_file
           /\ calls' = calls + r.calls
           /\ archived' = IF r.moved = 0 THEN archived
                          ELSE archived \cup {[uid |-> r.moved, nsteps |-> r.nsteps]}
           /\ now' = IF r.ran # 0 \/ r.moved # 0 THEN now + 1 ELSE now
           /\ last' = Outcome("execute", task_id,
                              get_task(active_tasks, task_history, task_id).coll,
                              r.out, r.err, r.ran, r.failed_at, r.uid)
    /\ UNCHANGED <<backup_file, nextUid, created,
                   in_flight, raced, peer, peer_written>>

\* AgentService(): a new orchestrator loads the files it finds (afile is the active file)
ConstructOver(afile) ==
    /\ \E r \in {Loaded(load_task_history(history_file),
                        load_active_tasks(afile, backup_file))} :
           /\ task_history' = r.task_history
           /\ history_file' = r.history_file
           /\ active_tasks' = r.active_tasks
           /\ active_file' = r.active_file
           /\ backup_file' = r.backup_file
           /\ last' = r.last
    /\ calls' = 0
    /\ created' = {}
    /\ UNCHANGED <<now, nextUid, archived,
                   in_flight, raced, peer, peer_written>>

\* a new orchestrator over the files the previous one left
Construct == ConstructOver(active_file)

\* ids a caller may pass: every id issued so far, and one that was never issued
CallIds == 1..(nextUid + 1)

Next ==
    \/ \E response \in Responses : CreateTask(response)
    \/ \E task_id \in CallIds : ExecuteTask(task_id)
    \/ \E task_id \in CallIds : ArchiveTask(task_id)
    \/ Construct

Spec == Init /\ [][Next]_vars

\* ---- the active file damaged between two runs (what _load_active_tasks recovers from) ----
\* "malformed": text json.load rejects; "badtime": valid JSON whose first created_at
\* datetime.fromisoformat rejects
DamagedFile(file, how) ==
    IF how = "malformed" THEN MalformedFile
    ELSE JsonFile([file.data EXCEPT ![1].created_at = BadString])

\* a new orchestrator over an active file that was damaged since the previous one wrote it
ConstructOverDamaged(how) ==
    /\ how = "badtime" => active_file.state = "json" /\ active_file.data # <<>>
    /\ ConstructOver(DamagedFile(active_file, how))

NextDamage ==
    \/ Next
    \/ \E how \in {"malformed", "badtime"} : ConstructOverDamaged(how)

SpecDamage == Init /\ [][NextDamage]_vars

\* ---- an orchestrator constructed over the files of an earlier run ----
\* The earlier run created task 1 with a step and task 2 without, and executed task 1:
\* the history dump failed half-way and the active file holds task 2 alone
\* (LeftBehindFiles, a state Spec reaches).
LeftBehindFiles ==
    /\ history_file = MalformedFile
    /\ active_file.state = "json"
    /\ Len(active_file.data) = 1
    /\ active_file.data[1].task_id = 2
    /\ active_file.data[1].steps = <<>>
    /\ nextUid = 2

LeftBehindActive == JsonFile(<<TaskCopyActive(NewTask(2, 2, OtherResponse("text"), 0))>>)

InitLeftBehind ==
    /\ \E r \in {Loaded(load_task_history(MalformedFile),
                        load_active_tasks(LeftBehindActive, AbsentFile))} :
           /\ task_history = r.task_history
           /\ history_file = r.history_file
           /\ active_tasks = r.active_tasks
           /\ active_file = r.active_file
           /\ backup_file = r.backup_file
           /\ last = r.last
    /\ now = 1
    /\ calls = 0
    /\ nextUid = 2
    /\ created = {}
    /\ archived = {}
    /\ in_flight = {}
    /\ raced = {}
    /\ peer = NoPeerTasks
    /\ peer_written = {}

SpecLeftBehind == InitLeftBehind /\ [][Next]_vars

\* ---- create_task calls that overlap on one orchestrator ----
\* create_task is a coroutine: it computes task_id (line 233), then awaits
\* _plan_task_steps, which awaits the completion client (lines 236, 199); another
\* coroutine of the same event loop can run until the response arrives.
MaxInFlight == 2

Count(active, history) == Len(active) + Len(history)

\* lines 232-236: the id is computed and the call is suspended in the await
CreateSuspended(active, history, uid) ==
    [uid |-> uid, task_id |-> NextTaskId(active, history), seen |-> Count(active, history)]

\* a resumption that computes the id again from the collections as they are now
CreateResumedRecounts(active, history, afile, call, response, t) ==
    CreateAppend(active, afile, NewTask(call.uid, NextTaskId(active, history), response, t))

\* lines 236-256: the response has arrived; the task is built with the id computed before
\* the await, appended and saved
CreateResumed(active, history, afile, call, response, t) ==
    CreateAppend(active, afile, NewTask(call.uid, call.task_id, response, t))

CreateBegin ==
    /\ nextUid < MaxTasks
    /\ Cardinality(in_flight) < MaxInFlight
    /\ in_flight' = in_flight \cup {CreateSuspended(active_tasks, task_history, nextUid + 1)}
    /\ raced' = raced \cup
           {{call.uid, nextUid + 1} :
               call \in {c \in in_flight : c.seen = Count(active_tasks, task_history)}}
    /\ nextUid' = nextUid + 1
    /\ calls' = calls + 1
    /\ last' = Outcome("begin", NextTaskId(active_tasks, task_history), "none", "suspended",
                       "none", 0, 0, nextUid + 1)
    /\ UNCHANGED <<active_tasks, task_history, active_file, history_file, backup_file,
                   now, created, archived, peer, peer_written>>

CreateFinish(call, response) ==
    /\ call \in in_flight
    /\ now < MaxClock
    /\ \E r \in {CreateResumed(active_tasks, task_history, active_file, call, response, now)} :
           /\ active_tasks' = r.active_tasks
           /\ active_file' = r.active_file
           /\ last' = Outcome("create", r.task_id, "none", IF r.raised THEN "raised" ELSE "ok",
                              IF r.raised THEN "save failed" ELSE "none", 0, 0, call.uid)
    /\ in_flight' = in_flight \ {call}
    /\ created' = created \cup {call.uid}
    /\ now' = now + 1
    /\ UNCHANGED <<task_history, history_file, backup_file, calls, nextUid, archived,
                   raced, peer, peer_written>>

\* the responses the overlapping calls get: one with a step and one without
RacedResponses == {ArrayResponse(Instructed(<<"analysis">>), "none"), OtherResponse("text")}

NextConcurrent ==
    \/ CreateBegin
    \/ \E call \in in_flight : \E response \in RacedResponses : CreateFinish(call, response)
    \/ \E task_id \in CallIds : ArchiveTask(task_id)

SpecConcurrent == Init /\ [][NextConcurrent]_vars

\* ---- a second AgentService on the same two files ----
\* app.py builds one AgentService and AutomationPanel builds another; each loads the files
\* in __init__ and afterwards works on its own lists.
PeerConstruct ==
    /\ \E r \in {Loaded(load_task_history(history_file),
                        load_active_tasks(active_file, backup_file))} :
           /\ peer' = [active_tasks |-> r.active_tasks, task_history |-> r.task_history]
           /\ history_file' = r.history_file
           /\ active_file' = r.active_file
           /\ backup_file' = r.backup_file
           /\ last' = [r.last EXCEPT !.op = "peer_construct"]
    /\ UNCHANGED <<active_tasks, task_history, now, calls, nextUid, created, archived,
                   in_flight, raced, peer_written>>

PeerCreateTask(response) ==
    /\ nextUid < MaxTasks
    /\ now < MaxClock
    /\ \E r \in {create_task(peer.active_tasks, peer.task_history, active_file,
                             nextUid + 1, response, now)} :
           /\ peer' = [peer EXCEPT !.active_tasks = r.active_tasks]
           /\ active_file' = r.active_file
           /\ peer_written' = IF r.raised THEN peer_written ELSE peer_written \cup {nextUid + 1}
           /\ last' = Outcome("peer_create", r.task_id, "none",
                              IF r.raised THEN "raised" ELSE "ok",
                              IF r.raised THEN "save failed" ELSE "none", 0, 0, nextUid + 1)
    /\ nextUid' = nextUid + 1
    /\ now' = now + 1
    /\ calls' = calls + 1
    /\ UNCHANGED <<active_tasks, task_history, history_file, backup_file, created, archived,
                   in_flight, raced>>

NextShared ==
    \/ \E response \in Responses : CreateTask(response)
    \/ \E task_id \in CallIds : ArchiveTask(task_id)
    \/ \E response \in Responses : PeerCreateTask(response)
    \/ PeerConstruct

SpecShared == Init /\ [][NextShared]_vars

\* ======================= properties =======================

\* C1: every task that create_task has added on this orchestrator is, in every state, in
\* exactly one of active_tasks and task_history: never in both, never in neither.
C1_ExactlyOneCollection ==
    \A u \in created : Occurrences(active_tasks, u) + Occurrences(task_history, u) = 1

\* an archive_task call that raised (the save of the active file failed) after it moved a task
C1_Witness ==
    /\ last.op = "archive" /\ last.out = "raised" /\ last.uid \in created
    /\ Occurrences(task_history, last.uid) = 1
    /\ \E v \in created : Occurrences(active_tasks, v) = 1

\* C2: after a new orchestrator has loaded both files, every task that was archived
\* is in its history, with all its steps, and is not in its active collection.
C2_ArchivedSurvivesRestart ==
    last.op = "construct" =>
        \A a \in archived :
            /\ \E i \in DOMAIN task_history :
                   task_history[i].uid = a.uid /\ Len(task_history[i].steps) = a.nsteps
            /\ Occurrences(active_tasks, a.uid) = 0

\* C3: when execute_task has run every step of an active task successfully, the outcome is
\* success, the task is completed, in history and not active, and completed_at >= created_at.
C3_AllStepsSucceed ==
    (last.op = "execute" /\ last.coll = "active" /\ last.failed_at = 0) =>
        /\ last.out = "success"
        /\ Occurrences(active_tasks, last.uid) = 0
        /\ \E i \in DOMAIN task_history :
               /\ task_history[i].uid = last.uid
               /\ task_history[i].status = "completed"
               /\ task_history[i].completed_at.kind = "datetime"
               /\ task_history[i].completed_at.t >= task_history[i].created_at.t

\* C4: when step k of an active task is the first to fail, execute_task leaves steps before k
\* completed, step k failed, later steps pending and never attempted, the task failed and
\* still active (not in history), and returns the failing step's error.
C4_HaltAtFirstFailure ==
    (last.op = "execute" /\ last.coll = "active" /\ last.failed_at # 0) =>
        /\ Occurrences(task_history, last.uid) = 0
        /\ last.out = "error"
        /\ \E i \in DOMAIN active_tasks :
               /\ active_tasks[i].uid = last.uid
               /\ active_tasks[i].status = "failed"
               /\ last.err = active_tasks[i].steps[last.failed_at].result.value
               /\ \A j \in DOMAIN active_tasks[i].steps :
                      /\ j < last.failed_at => active_tasks[i].steps[j].status = "completed"
                      /\ j = last.failed_at => active_tasks[i].steps[j].status = "failed"
                      /\ j > last.failed_at =>
                             /\ active_tasks[i].steps[j].status = "pending"
                             /\ active_tasks[i].steps[j].result = NoResult

\* C5: the task_id of a task create_task returns differs from the task_id of every other
\* task in active_tasks or task_history.
C5_FreshTaskId ==
    (last.op = "create" /\ last.out = "ok") =>
        /\ \A i \in DOMAIN active_tasks :
               active_tasks[i].uid # last.uid => active_tasks[i].task_id # last.id
        /\ \A i \in DOMAIN task_history :
               task_history[i].uid # last.uid => task_history[i].task_id # last.id

\* C6: when execute_task returns for an existing task, the task is completed and in the
\* history file, or failed and in the active file with its failed status.
C6_TerminalAndPersisted ==
    (last.op = "execute" /\ last.coll # "none") =>
        \/ /\ \E i \in DOMAIN task_history :
                  task_history[i].uid = last.uid /\ task_history[i].status = "completed"
           /\ history_file.state = "json"
           /\ \E i \in DOMAIN history_file.data :
                  history_file.data[i].uid = last.uid /\ history_file.data[i].status = "completed"
        \/ /\ \E i \in DOMAIN active_tasks :
                  active_tasks[i].uid = last.uid /\ active_tasks[i].status = "failed"
           /\ active_file.state = "json"
           /\ \E i \in DOMAIN active_file.data :
                  active_file.data[i].uid = last.uid /\ active_file.data[i].status = "failed"

\* C7: executing a step whose type is neither analysis nor action ends that step with the
\* error result "Unknown step type", which execute_task returns, and get_completion is
\* called once per analysis or action step that ran and not at all for that step.
C7_UnknownStepType ==
    [][(last'.op = "execute" /\ last'.coll # "none") =>
          LET loc == get_task(active_tasks, task_history, last'.id)
              before == IF loc.coll = "active" THEN active_tasks[loc.i] ELSE task_history[loc.i]
              after == IF loc.coll = "active" THEN active_tasks'[loc.i] ELSE task_history'[loc.i]
          IN  /\ calls' = calls + Cardinality({j \in 1..last'.ran : KnownType(before.steps[j])})
              /\ \A j \in 1..last'.ran :
                     ~KnownType(before.steps[j]) =>
                         /\ j = last'.failed_at
                         /\ last'.out = "error"
                         /\ last'.err = "Unknown step type"
                         /\ after.steps[j].result = UnknownTypeResult
                         /\ after.steps[j].status = "error"]_vars

\* a task whose first step ran with one completion call and whose second, unknown, step failed
C7_Witness ==
    /\ last.op = "execute" /\ last.failed_at = 2 /\ last.err = "Unknown step type"
    /\ calls = 1

\* C8: loading the file that _save_active_tasks has just written gives back the collection
\* that was saved: every task and step field, with every timestamp a datetime equal to the
\* original.
C8_RoundTrip ==
    [][(last'.op = "create" /\ last'.out = "ok") =>
          \E response \in Responses :
              load_active_tasks(active_file', backup_file').tasks =
                  Append(active_tasks,
                         NewTask(nextUid + 1, NextTaskId(active_tasks, task_history), response, now))]_vars

\* C9: when the active file exists but does not load (malformed JSON, or a timestamp that
\* cannot be deserialized), the new orchestrator has an empty active collection, a .bak
\* copy of the file is on disk and the active file holds an empty array.
C9_DamagedActiveFileQuarantined ==
    (last.op = "construct" /\ last.err \in {"JSONDecodeError", "ValueError"}) =>
        /\ active_tasks = <<>>
        /\ backup_file.state # "absent"
        /\ active_file = JsonFile(<<>>)

\* C10: archive_task called a second time with the same id, or with an id that is in no
\* collection, raises nothing and changes neither collection, no task and neither file.
C10_ArchiveAgainNoEffect ==
    [][(/\ last'.op = "archive"
        /\ \/ last.op = "archive" /\ last.id = last'.id
           \/ get_task(active_tasks, task_history, last'.id).coll = "none") =>
          /\ last'.out = "ok"
          /\ UNCHANGED <<active_tasks, task_history, active_file, history_file>>]_vars

\* C11: create_task with a planner response that is not a JSON array of step objects
\* (prose, the client's error text, a wrapping object, no content, an array in a plain
\* fence) does not raise and returns a pending task without steps, appended to
\* active_tasks and written to the active file.
C11_UnparsablePlanStillCreates ==
    [][\A response \in Responses :
          (/\ response.kind # "array" \/ response.fence = "plain"
           /\ CreateTask(response)) =>
              /\ last'.out = "ok"
              /\ Len(active_tasks') = Len(active_tasks) + 1
              /\ active_tasks'[Len(active_tasks')].uid = nextUid + 1
              /\ active_tasks'[Len(active_tasks')].status = "pending"
              /\ active_tasks'[Len(active_tasks')].steps = <<>>
              /\ active_file'.state = "json"
              /\ \E i \in DOMAIN active_file'.data :
                     /\ active_file'.data[i].uid = nextUid + 1
                     /\ active_file'.data[i].steps = <<>>]_vars

\* C12: when the write of the active file or of the history file fails inside create_task
\* or archive_task, the call raises to its caller.
C12_SaveFailureRaised ==
    [][/\ \A response \in Responses :
              (/\ CreateTask(response)
               /\ save_active_tasks(
                      Append(active_tasks,
                             NewTask(nextUid + 1, NextTaskId(active_tasks, task_history),
                                     response, now)),
                      active_file).raised)
              => last'.out = "raised"
       /\ \A task_id \in CallIds :
              (/\ ArchiveTask(task_id)
               /\ FirstIndex(active_tasks, task_id) # 0
               /\ \/ HistorySaveFails(
                         Append(task_history,
                                Stamped(active_tasks[FirstIndex(active_tasks, task_id)], now)))
                  \/ save_active_tasks(
                         RemoveAt(active_tasks, FirstIndex(active_tasks, task_id)),
                         active_file).raised)
              => last'.out = "raised"]_vars

\* C13: execute_task with an id that is in neither collection returns the error outcome
\* "Task not found" and changes nothing: both collections (with every task and step in
\* them), both files and the backup are as before, and get_completion is not called.
C13_NotFoundChangesNothing ==
    [][\A task_id \in CallIds :
          (/\ get_task(active_tasks, task_history, task_id).coll = "none"
           /\ last'.op = "execute" /\ last'.id = task_id
           /\ ExecuteTask(task_id)) =>
              /\ last'.out = "error"
              /\ last'.err = "Task not found"
              /\ UNCHANGED <<active_tasks, task_history, active_file, history_file,
                             backup_file, calls, now>>]_vars

\* execute_task has just been called with an id no task has, while a task with steps is
\* active and another is in history
C13_Witness ==
    /\ last.op = "execute" /\ last.coll = "none" /\ last.out = "error"
    /\ \E i \in DOMAIN active_tasks :
           active_tasks[i].steps # <<>> /\ active_tasks[i].task_id # last.id
    /\ \E i \in DOMAIN task_history : task_history[i].task_id # last.id

\* C14: in every state the status of every task and of every step, in active_tasks and in
\* task_history, is one of pending, running, completed, failed.
C14_StatusVocabulary ==
    \A tasks \in {active_tasks, task_history} :
        \A i \in DOMAIN tasks :
            /\ tasks[i].status \in {"pending", "running", "completed", "failed"}
            /\ \A j \in DOMAIN tasks[i].steps :
                   tasks[i].steps[j].status \in {"pending", "running", "completed", "failed"}

\* C15: every task in task_history has status completed and every one of its steps has
\* status completed.
C15_HistoryHoldsCompleted ==
    \A i \in DOMAIN task_history :
        /\ task_history[i].status = "completed"
        /\ \A j \in DOMAIN task_history[i].steps :
               task_history[i].steps[j].status = "completed"

\* C16: one execute_task call dispatches the steps of the task in list order, from the
\* first one on without a gap (the steps after the last dispatched one are untouched), each
\* step before the last dispatched one has a terminal status (completed or failed) when
\* the next is dispatched, and no operation changes the order of a task's steps.
C16_StepsInOrder ==
    [][LET Order(task) == [j \in DOMAIN task.steps |-> <<task.steps[j].id, task.steps[j].type>>]
           before == active_tasks \o task_history
           after == active_tasks' \o task_history'
       IN  /\ \A i \in DOMAIN before : \A k \in DOMAIN after :
                  before[i].uid = after[k].uid => Order(before[i]) = Order(after[k])
           /\ (last'.op = "execute" /\ last'.coll # "none") =>
                  \A i \in DOMAIN before : \A k \in DOMAIN after :
                      (before[i].uid = last'.uid /\ after[k].uid = last'.uid) =>
                          \A j \in DOMAIN before[i].steps :
                              /\ j <= last'.ran => after[k].steps[j].result # NoResult
                              /\ j < last'.ran =>
                                     after[k].steps[j].status \in {"completed", "failed"}
                              /\ j > last'.ran => after[k].steps[j] = before[i].steps[j]]_vars

\* C17: when execute_task has dispatched a step after an earlier one, the active file
\* already holds the earlier step's status and result: after a run that halted at step k,
\* the task's record in the active file has, for every step before k, the status and
\* result the step has in memory.
C17_StepPersistedBeforeNext ==
    (last.op = "execute" /\ last.coll = "active" /\ last.failed_at >= 2) =>
        /\ active_file.state = "json"
        /\ \A i \in DOMAIN active_tasks :
               active_tasks[i].uid = last.uid =>
                   \E k \in DOMAIN active_file.data :
                       /\ active_file.data[k].uid = last.uid
                       /\ \A j \in 1..(last.failed_at - 1) :
                              /\ active_file.data[k].steps[j].status =
                                     active_tasks[i].steps[j].status
                              /\ active_file.data[k].steps[j].result =
                                     active_tasks[i].steps[j].result

\* C18: a task's status changes only from pending to running, from running to completed
\* and from running to failed; and once execute_task has dispatched a step of an active
\* task, the task has left pending, in memory and, while it is still active, in the
\* active file.
C18_TaskStatusMachine ==
    [][LET before == active_tasks \o task_history
           after == active_tasks' \o task_history'
       IN  /\ \A i \in DOMAIN before : \A k \in DOMAIN after :
                  (before[i].uid = after[k].uid /\ before[i].status # after[k].status) =>
                      <<before[i].status, after[k].status>> \in
                          {<<"pending", "running">>, <<"running", "completed">>,
                           <<"running", "failed">>}
           /\ (last'.op = "execute" /\ last'.coll = "active" /\ last'.ran >= 1) =>
                  /\ \A k \in DOMAIN after :
                         after[k].uid = last'.uid => after[k].status # "pending"
                  /\ (\E k \in DOMAIN active_tasks' : active_tasks'[k].uid = last'.uid) =>
                         /\ active_file'.state = "json"
                         /\ \E k \in DOMAIN active_file'.data :
                                /\ active_file'.data[k].uid = last'.uid
                                /\ active_file'.data[k].status # "pending"]_vars

\* C20: a new orchestrator that finds a malformed history file replaces it by a file
\* holding an empty array (the malformed text being kept under a backup name) and starts
\* with an empty history.
C20_DamagedHistoryFileQuarantined ==
    [][(Construct /\ history_file.state = "malformed") =>
          /\ task_history' = <<>>
          /\ history_file' = JsonFile(<<>>)]_vars

\* C19: the task create_task returns for a response parsed as an array of n step objects
\* has n steps, the i-th with id step_i, status pending and the type of the i-th object,
\* whatever id and status the object came with; for any other response it has no steps.
C19_StepIdsFollowPlanningOrder ==
    [][\A response \in Responses :
          (last'.op = "create" /\ last'.out = "ok" /\ CreateTask(response)) =>
              LET task == active_tasks'[Len(active_tasks')]
                  n == IF response.kind = "array" /\ response.fence # "plain"
                       THEN Len(response.steps) ELSE 0
              IN  /\ task.uid = last'.uid
                  /\ Len(task.steps) = n
                  /\ \A i \in 1..n :
                         /\ task.steps[i].id = i
                         /\ task.steps[i].status = "pending"
                         /\ task.steps[i].type = response.steps[i].type]_vars

\* create_task has just returned a task with three planned steps
C19_Witness ==
    /\ last.op = "create" /\ last.out = "ok"
    /\ \E k \in DOMAIN active_tasks :
           /\ active_tasks[k].uid = last.uid
           /\ Len(active_tasks[k].steps) = 3
           /\ \A i \in 1..3 :
                  active_tasks[k].steps[i].id = i /\ active_tasks[k].steps[i].status = "pending"

\* C21: a planner response that is a JSON array of steps inside a code fence, with or
\* without a language tag, gives the task the step list the same array gives without the
\* fence.
C21_FenceStripped ==
    [][\A response \in Responses :
          (/\ last'.op = "create"
           /\ response.kind = "array" /\ response.fence # "none"
           /\ CreateTask(response)) =>
              \A k \in DOMAIN active_tasks' :
                  active_tasks'[k].uid = last'.uid =>
                      [j \in DOMAIN active_tasks'[k].steps |->
                          <<active_tasks'[k].steps[j].id, active_tasks'[k].steps[j].type,
                            active_tasks'[k].steps[j].status>>]
                      = [j \in DOMAIN response.steps |->
                          <<plan_task_steps([response EXCEPT !.fence = "none"], now)[j].id,
                            plan_task_steps([response EXCEPT !.fence = "none"], now)[j].type,
                            plan_task_steps([response EXCEPT !.fence = "none"], now)[j].status>>]]_vars

\* C24: after create_task, execute_task or archive_task has returned without raising,
\* loading the two files gives the task ids, task statuses and step statuses that the
\* in-memory active_tasks and task_history hold.
C24_FilesMatchMemory ==
    (last.op \in {"create", "execute", "archive"} /\ last.out # "raised") =>
        LET View(tasks) ==
                [i \in DOMAIN tasks |->
                    [task_id |-> tasks[i].task_id, status |-> tasks[i].status,
                     steps |-> [j \in DOMAIN tasks[i].steps |-> tasks[i].steps[j].status]]]
        IN  /\ View(load_active_tasks(active_file, backup_file).tasks) = View(active_tasks)
            /\ View(load_task_history(history_file).tasks) = View(task_history)

\* C25: a save leaves the in-memory records as they were, so create_task leaves the tasks
\* that were active as they were and appends the new one, and after a create_task whose
\* save succeeded the save of the next create_task succeeds too.
C25_SaveLeavesMemory ==
    [][last'.op = "create" =>
          /\ \E response \in Responses :
                 active_tasks' =
                     Append(active_tasks,
                            NewTask(nextUid + 1, NextTaskId(active_tasks, task_history),
                                    response, now))
          /\ (last.op = "create" /\ last.out = "ok") => last'.out = "ok"]_vars

\* C26: when create_task raises, active_tasks is what it was before the call and the new
\* task is not in it.
C26_FailedCreateLeavesNothing ==
    [][(last'.op = "create" /\ last'.out = "raised") =>
          /\ Len(active_tasks') = Len(active_tasks)
          /\ \A k \in DOMAIN active_tasks' : active_tasks'[k].uid # last'.uid]_vars

\* C27: when archive_task raises, the task it was called for is still in active_tasks and
\* in the active file, is not in task_history nor in the history file, and has no
\* completed_at.
C27_FailedArchiveLeavesTaskActive ==
    (last.op = "archive" /\ last.out = "raised") =>
        /\ \E k \in DOMAIN active_tasks :
               active_tasks[k].uid = last.uid /\ active_tasks[k].completed_at = NoTime
        /\ \A k \in DOMAIN task_history : task_history[k].uid # last.uid
        /\ active_file.state = "json"
        /\ \E k \in DOMAIN active_file.data : active_file.data[k].uid = last.uid
        /\ history_file.state = "json" =>
               \A k \in DOMAIN history_file.data : history_file.data[k].uid # last.uid

\* C28: execute_task called with the id of a task that is in task_history and not in
\* active_tasks dispatches no step, calls get_completion for none and leaves both
\* collections and both files as they were.
C28_HistoryTaskNotRerun ==
    [][(last'.op = "execute" /\ last'.coll = "history") =>
          /\ last'.ran = 0
          /\ UNCHANGED <<active_tasks, task_history, active_file, history_file, calls>>]_vars

\* C29: create_task, execute_task and archive_task, raising or not, never make
\* len(active_tasks) + len(task_history) smaller, and create_task makes it larger by one:
\* the id create_task issues is greater than the id of every task created before it on
\* the same orchestrator.
C29_CountNeverDecreases ==
    [][last'.op \in {"create", "execute", "archive"} =>
          /\ Len(active_tasks') + Len(task_history') >= Len(active_tasks) + Len(task_history)
          /\ last'.op = "create" =>
                 /\ Len(active_tasks') + Len(task_history') =
                        Len(active_tasks) + Len(task_history) + 1
                 /\ last'.id = Len(active_tasks) + Len(task_history) + 1
                 /\ \A tasks \in {active_tasks, task_history} :
                        \A k \in DOMAIN tasks :
                            tasks[k].uid \in created => tasks[k].task_id < last'.id]_vars

\* create_task has issued an id on an orchestrator that created a task before and has
\* archived one of its own tasks, after a call that raised
C29_Witness ==
    /\ last.op = "create" /\ last.out = "raised"
    /\ Cardinality(created) >= 2
    /\ \E k \in DOMAIN task_history : task_history[k].uid \in created

\* C30: when a new orchestrator has started with one collection empty because its file
\* did not load, while the other collection holds tasks, the first create_task on it
\* returns a task_id that no task of either collection has.
C30_FreshIdAfterRecovery ==
    [][(/\ last.op = "construct"
        /\ last'.op = "create"
        /\ \/ /\ history_file.state = "malformed"
              /\ task_history = <<>>
              /\ active_tasks # <<>>
           \/ /\ last.err \in {"JSONDecodeError", "ValueError"}
              /\ active_tasks = <<>>
              /\ task_history # <<>>) =>
          \A tasks \in {active_tasks, task_history} :
              \A k \in DOMAIN tasks : tasks[k].task_id # last'.id]_vars

\* C22: two create_task calls on one orchestrator that both computed their id before
\* either appended its task (both were suspended in the planning await, the collections
\* having the same size at both computations) have the same task_id, and each of them,
\* once resumed, has its task in the collections under that id: both tasks are appended.
C22_OverlappingCreatesCollide ==
    \A pair \in raced :
        /\ \A a \in in_flight : \A b \in in_flight :
               (a.uid \in pair /\ b.uid \in pair) => a.task_id = b.task_id
        /\ \A u \in pair :
               \/ \E call \in in_flight : call.uid = u
               \/ Occurrences(active_tasks, u) + Occurrences(task_history, u) = 1
        /\ \A x \in DOMAIN (active_tasks \o task_history) :
               \A y \in DOMAIN (active_tasks \o task_history) :
                   (/\ (active_tasks \o task_history)[x].uid \in pair
                    /\ (active_tasks \o task_history)[y].uid \in pair) =>
                       (active_tasks \o task_history)[x].task_id =
                           (active_tasks \o task_history)[y].task_id
        /\ \A x \in DOMAIN (active_tasks \o task_history) :
               \A call \in in_flight :
                   (call.uid \in pair /\ (active_tasks \o task_history)[x].uid \in pair) =>
                       (active_tasks \o task_history)[x].task_id = call.task_id

\* both calls of a pair have been resumed and their two tasks are in active_tasks under
\* one task_id
C22_Witness ==
    \E pair \in raced :
        /\ Cardinality(pair) = 2
        /\ \A u \in pair : Occurrences(active_tasks, u) = 1
        /\ \E x \in DOMAIN active_tasks : \E y \in DOMAIN active_tasks :
               /\ x # y
               /\ active_tasks[x].uid \in pair /\ active_tasks[y].uid \in pair
               /\ active_tasks[x].task_id = active_tasks[y].task_id

\* C23: with two orchestrators on the same files, a create_task or archive_task of one
\* that rewrites the active file writes its own active_tasks and nothing else: a task
\* the other orchestrator has written to the file, and that this one does not hold, is
\* no longer in the file.
C23_SharedFilesLostUpdate ==
    [][(/\ last'.out = "ok"
        /\ \/ last'.op = "create"
           \/ last'.op = "archive" /\ last'.uid # 0) =>
          /\ active_file'.state = "json"
          /\ [k \in DOMAIN active_file'.data |-> active_file'.data[k].uid] =
                 [k \in DOMAIN active_tasks' |-> active_tasks'[k].uid]
          /\ \A u \in peer_written :
                 Occurrences(active_tasks', u) = 0 =>
                     \A k \in DOMAIN active_file'.data : active_file'.data[k].uid # u]_vars

\* the second orchestrator holds a task it created and wrote to the active file; the
\* first one, which never loaded it, has since saved, and the file no longer has the task
C23_Witness ==
    /\ last.op \in {"create", "archive"} /\ last.out = "ok"
    /\ active_file.state = "json"
    /\ \E u \in peer_written :
           /\ Occurrences(peer.active_tasks, u) = 1
           /\ Occurrences(active_tasks, u) + Occurrences(task_history, u) = 0
           /\ \A k \in DOMAIN active_file.data : active_file.data[k].uid # u

====
